---- MODULE Spec2Model ----
(***************************************************************************)
(* Model of BanziSeo/dwloader: the two Streamlit scripts                   *)
(*   src/download_data.py            (the cache downloader, app = "dl")    *)
(*   src/streamlit_integrated_app.py (the three-step app,   app = "int")   *)
(* One script run is triggered by one user event.  A run without a loop is *)
(* one action; a run with a batch loop is a chain of actions, one per      *)
(* loop step, so that the order of fetches, records, progress reports and  *)
(* sleeps can be observed in `log`.                                        *)
(***************************************************************************)
EXTENDS Integers, Sequences, FiniteSets, TLC

VARIABLES
    app,            \* which script this process runs: "dl" or "int"
    pc,             \* position of the running script ("idle": waiting for a user event)
    all_tickers,    \* dl: the uploaded ticker list (download_data.py:103)
    cache,          \* dl: CACHE_DIR, symbol -> rows of {symbol}.csv, 0 = no file
    new_tickers,    \* dl: download_data.py:161
    batch_size,     \* dl: download_data.py:143
    delay,          \* dl: download_data.py:146, in tenths of a second
    batch_idx,      \* dl: download_data.py:189
    i,              \* loop index inside the batch (dl) or of the loop (int)
    attempt,        \* dl: download_data.py:37
    answer,         \* what the provider gave the last fetch of download_ticker_data
                    \* (dl) or of fetch_stock_data (int)
    result,         \* dl: (ok, result) of download_ticker_data
    success_list,   \* dl: download_data.py:181
    fail_list,      \* dl: download_data.py:182
    log,            \* observable events of the current run, in order
    confirmRendered,\* dl: the confirmation checkbox was rendered by the last run
    confirmValue,   \* dl: the widget state of the confirmation checkbox
    resetRendered,  \* dl: the reset button was rendered by the last run
    zipRendered,    \* dl: the "ZIP" button was rendered by the last run
    pressed,        \* the button that reads True in the current / last run
    confirmRead,    \* dl: what st.checkbox returned in the current / last run
    zip_data,       \* the archive built by the last run
    offered,        \* the ZIP st.download_button was rendered by the last run
    outcome,        \* dl: how the last download run ended: "none", "summary", "crash"
    nasdaq_cache,   \* int: what download_nasdaq_tickers returns, kept by st.cache_data
    ticker_df,      \* int: st.session_state.ticker_df
    filtered_df,    \* int: st.session_state.filtered_df
    symbols,        \* int: the list the running loop iterates over
    ticker_info,    \* int: streamlit_integrated_app.py:68
    failed_tickers, \* int: streamlit_integrated_app.py:69
    thresholds,     \* int: min_price, min_market_cap, min_volume read by the run
    successful_data,\* int: streamlit_integrated_app.py:302
    failed_list,    \* int: streamlit_integrated_app.py:303
    sessions        \* dl: the download runs of the browser sessions that share
                    \* CACHE_DIR, where they are followed side by side

dlVars == <<all_tickers, cache, new_tickers, batch_size, delay, batch_idx, attempt, result,
            success_list, fail_list, confirmRendered, confirmValue, resetRendered,
            zipRendered, confirmRead, outcome>>

intVars == <<nasdaq_cache, ticker_df, filtered_df, symbols, ticker_info,
             failed_tickers, thresholds, successful_data, failed_list>>

vars == <<app, pc, i, log, answer, pressed, zip_data, offered, dlVars, intVars, sessions>>

----------------------------------------------------------------------------
(* Bounds of the model *)

\* longest uploaded ticker list
MaxTickers == 2
\* most rows of the summary table the filter stage is applied to on its own
MaxInfo == 2
\* largest batch size tried (the widget allows 1..50)
MaxBatch == 2
\* items get_ticker_info_batch still has to handle where it is taken up on
\* its own
PauseTail == 4
\* most rows of the ticker table download_nasdaq_tickers returns
MaxRows == 2

Symbols == {"AAPL", "BAD"}

\* row counts a provider answer with data can have (len(df) > 0)
Rows == {1, 2}

\* range(3), download_data.py:37
MaxAttempts == 3

\* the values of the "delay" number input tried (0.1 to 5.0, default 0.5,
\* download_data.py:146), in tenths of a second
DefaultDelay == 5
Delays == {1, DefaultDelay}

RECURSIVE SeqsUpTo(_, _)
SeqsUpTo(S, n) ==
    IF n = 0 THEN {<<>>}
    ELSE LET shorter == SeqsUpTo(S, n - 1)
         IN  shorter \cup {Append(s, x) : s \in {t \in shorter : Len(t) = n - 1}, x \in S}

Min(a, b) == IF a < b THEN a ELSE b

\* the elements of a sequence
Range(s) == {s[k] : k \in 1..Len(s)}

----------------------------------------------------------------------------
(* Values *)

\* python None for an archive, and an archive with its entries in order
NoArchive == [none |-> TRUE, entries |-> <<>>]
Archive(es) == [none |-> FALSE, entries |-> es]

\* the (ok, message) pairs download_ticker_data returns
NoResult == [ok |-> FALSE, tag |-> "unset", n |-> 0]
AlreadyDownloaded == [ok |-> TRUE, tag |-> "AlreadyDownloaded", n |-> 0]
Downloaded(n) == [ok |-> TRUE, tag |-> "Rows", n |-> n]
NoData == [ok |-> FALSE, tag |-> "NoData", n |-> 0]
ProviderError == [ok |-> FALSE, tag |-> "ProviderError", n |-> 0]
RetriesExhausted == [ok |-> FALSE, tag |-> "RetriesExhausted", n |-> 0]

\* an entry of log: what happened, for the item at which 1-based position, and
\* an argument: the total of a "progress" report, the tenths of a second of a
\* "sleep", "backoff" or "pace", whether a "fetch" returned data (1) or not (0), the tag
\* of the outcome of a "record"
Ev(kind, pos, arg) == <<kind, pos, arg>>

\* the progress report counting from 0
ProgressReportFromZero(idx, total) == Ev("progress", idx, total)

\* progress_callback(i + 1, len(symbols)), streamlit_integrated_app.py:98-99;
\* likewise (i + 1) / len(selected_symbols) at line 317 and
\* (global_idx + 1) / len(new_tickers) at download_data.py:199
ProgressReport(idx, total) == Ev("progress", idx + 1, total)

----------------------------------------------------------------------------
(* download_data.py: pure parts *)

\* CACHE_DIR.glob("*.csv") as the set of stems
ExistingTickers(c) == {s \in Symbols : c[s] # 0}

\* path.exists() asked for a name no artifact carries
PathExistsWrongName(c, t) == FALSE

\* path.exists(), download_data.py:33
PathExists(c, t) == c[t] # 0

\* the list slice of the download mode, download_data.py:149-158
SelectedTickers(mode, all, existing) ==
    CASE mode = "remaining" -> SelectSeq(all, LAMBDA t : t \notin existing)
      [] mode = "test5"     -> SubSeq(all, 1, Min(5, Len(all)))
      [] mode = "some20"    -> SubSeq(all, 1, Min(20, Len(all)))
      [] mode = "half50"    -> SubSeq(all, 1, Min(50, Len(all)))
      [] OTHER              -> all

Modes == {"remaining", "test5", "some20", "half50", "all"}

\* download_data.py:161
NewTickers(mode, all, existing) ==
    SelectSeq(SelectedTickers(mode, all, existing), LAMBDA t : t \notin existing)

\* download_data.py:179
TotalBatches(n, bs) == (n + bs - 1) \div bs

\* download_data.py:190-192 and 198
BatchStart == batch_idx * batch_size
BatchEnd == Min(BatchStart + batch_size, Len(new_tickers))

\* the list walked from its end
GlobalIdxReversed == Len(new_tickers) - 1 - (BatchStart + i)

GlobalIdx == BatchStart + i
Ticker == new_tickers[GlobalIdx + 1]

\* an arbitrary but fixed listing of a set of names (glob order is unspecified)
RECURSIVE Listing(_)
Listing(S) ==
    IF S = {} THEN <<>>
    ELSE LET x == CHOOSE y \in S : TRUE IN <<x>> \o Listing(S \ {x})

\* the entry named by the stem alone
CsvNameStem(stem) == stem

CsvName(stem) == stem \o ".csv"

RECURSIVE MapCsv(_)
MapCsv(s) == IF s = <<>> THEN <<>> ELSE <<CsvName(Head(s))>> \o MapCsv(Tail(s))

\* create_download_zip() without the test of line 69
CreateDownloadZipNoCheck(c) == Archive(MapCsv(Listing(ExistingTickers(c))))

\* create_download_zip(), download_data.py:64-76
CreateDownloadZip(c) ==
    LET csv_files == Listing(ExistingTickers(c))
    IN  IF csv_files = <<>> THEN NoArchive ELSE Archive(MapCsv(csv_files))

\* python truthiness of the value create_download_zip returns: None is falsy,
\* the bytes of any archive are non-empty
Truthy(z) == ~z.none

\* the reset block without its confirmation test
ResetBlockUnconfirmed(c, button, checkbox) ==
    IF button THEN [s \in Symbols |-> 0] ELSE c

\* the cache after the reset block, download_data.py:240-243
ResetBlock(c, button, checkbox) ==
    IF button /\ checkbox THEN [s \in Symbols |-> 0] ELSE c

\* the widget state of the checkbox the front end sends with an event that is
\* not a click on the checkbox: the value it holds if the widget was on the page
\* after the last run, else the default (False)
CheckboxState == IF confirmRendered THEN confirmValue ELSE FALSE

----------------------------------------------------------------------------
(* download_data.py: the end of every run of main(), lines 238-278 *)

\* `button` is the button that reads True in this run, `cbState` the widget
\* state of the checkbox sent with the event; st.checkbox is only called, and the
\* checkbox only rendered, inside the reset button's branch
RunTail(button, cbState) ==
    LET resetBtn == (button = "reset")
        cb       == IF resetBtn THEN cbState ELSE FALSE
        cache1   == ResetBlock(cache, resetBtn, cb)
        deleted  == resetBtn /\ cb
        \* st.rerun() (line 244) starts the script again with no button pressed
        btn2     == IF deleted THEN "none" ELSE button
        existing_files == ExistingTickers(cache1)
        zipBtn   == existing_files # {} /\ btn2 = "zip"
        z        == IF zipBtn THEN CreateDownloadZip(cache1) ELSE NoArchive
    IN  /\ cache' = cache1
        /\ confirmRead' = cb
        /\ confirmRendered' = (resetBtn /\ ~deleted)
        \* the state of a widget the run did not render is dropped
        /\ confirmValue' = (resetBtn /\ ~deleted /\ cb)
        /\ resetRendered' = TRUE
        /\ zipRendered' = (existing_files # {})
        /\ zip_data' = z
        /\ offered' = (zipBtn /\ Truthy(z))
        /\ pc' = "idle"

ClearLocals ==
    /\ new_tickers' = <<>>
    /\ batch_size' = 1
    /\ delay' = DefaultDelay
    /\ batch_idx' = 0
    /\ i' = 0
    /\ attempt' = 0
    /\ answer' = "none"
    /\ result' = NoResult
    /\ success_list' = <<>>
    /\ fail_list' = <<>>
    /\ log' = <<>>
    /\ outcome' = "none"

----------------------------------------------------------------------------
(* download_data.py: user events, each starting one script run *)

\* a rerun in which no button reads True (a selectbox or number input changed)
Rerun ==
    /\ app = "dl" /\ pc = "idle"
    /\ pressed' = "none"
    /\ ClearLocals
    /\ RunTail("none", CheckboxState)
    /\ UNCHANGED <<app, sessions, all_tickers, intVars>>

\* "download" pressed, download_data.py:169-187
PressDownload ==
    /\ app = "dl" /\ pc = "idle"
    /\ \E mode \in Modes, bs \in 1..MaxBatch, dly \in Delays :
         LET nt == NewTickers(mode, all_tickers, ExistingTickers(cache))
         IN  /\ pressed' = "download"
             /\ IF Len(nt) = 0
                THEN /\ ClearLocals
                     /\ RunTail("download", CheckboxState)
                ELSE /\ new_tickers' = nt
                     /\ batch_size' = bs
                     /\ delay' = dly
                     /\ batch_idx' = 0
                     /\ i' = 0
                     /\ attempt' = 0
                     /\ answer' = "none"
                     /\ result' = NoResult
                     /\ success_list' = <<>>
                     /\ fail_list' = <<>>
                     /\ log' = <<>>
                     /\ outcome' = "none"
                     /\ pc' = "item"
                     /\ zip_data' = NoArchive
                     /\ offered' = FALSE
                     \* nothing below the download block is rendered yet
                     /\ confirmRendered' = FALSE
                     /\ confirmValue' = FALSE
                     /\ confirmRead' = FALSE
                     /\ resetRendered' = FALSE
                     /\ zipRendered' = FALSE
                     /\ UNCHANGED cache
    /\ UNCHANGED <<app, sessions, all_tickers, intVars>>

\* the reset button pressed, download_data.py:240
PressReset ==
    /\ app = "dl" /\ pc = "idle" /\ resetRendered
    /\ pressed' = "reset"
    /\ ClearLocals
    /\ RunTail("reset", CheckboxState)
    /\ UNCHANGED <<app, sessions, all_tickers, intVars>>

\* the confirmation checkbox ticked: the front end sets the widget state and
\* the script reruns; no button reads True in that run
TickConfirm ==
    /\ app = "dl" /\ pc = "idle" /\ confirmRendered
    /\ pressed' = "none"
    /\ ClearLocals
    /\ RunTail("none", TRUE)
    /\ UNCHANGED <<app, sessions, all_tickers, intVars>>

\* the ZIP button pressed, download_data.py:257
PressZip ==
    /\ app = "dl" /\ pc = "idle" /\ zipRendered
    /\ pressed' = "zip"
    /\ ClearLocals
    /\ RunTail("zip", CheckboxState)
    /\ UNCHANGED <<app, sessions, all_tickers, intVars>>

----------------------------------------------------------------------------
(* download_data.py: the download loop, lines 189-214, and                 *)
(* download_ticker_data, lines 28-62                                       *)

\* lines 198-203 and 30-34: the progress report, then the call and its skip test
ItemBegin ==
    /\ app = "dl" /\ pc = "item"
    /\ log' = Append(log, ProgressReport(GlobalIdx, Len(new_tickers)))
    /\ IF PathExists(cache, Ticker)
       THEN /\ result' = AlreadyDownloaded
            /\ pc' = "record"
       ELSE /\ result' = NoResult
            /\ pc' = "attempt"
    /\ attempt' = 0
    /\ answer' = "none"
    /\ UNCHANGED <<app, sessions, delay, i, pressed, zip_data, offered, all_tickers, cache, new_tickers,
                   batch_size, batch_idx, success_list, fail_list, confirmRendered,
                   confirmValue, resetRendered, zipRendered, confirmRead, outcome, intVars>>

\* the retry loop giving up one pass early
AttemptResultShort(att, ans, rows) ==
    CASE ans = "data"  -> Downloaded(rows)
      [] ans = "empty" -> IF att < 1 THEN NoResult ELSE NoData
      [] OTHER         -> IF att < 1 THEN NoResult ELSE ProviderError

\* the retry loop reporting an exception of the last pass as "no data"
AttemptResultConflated(att, ans, rows) ==
    CASE ans = "data"  -> Downloaded(rows)
      [] OTHER         -> IF att < 2 THEN NoResult ELSE NoData

\* what one pass of the retry loop does with the provider's answer:
\* the returned result (or NoResult to go on), lines 42-60
AttemptResult(att, ans, rows) ==
    CASE ans = "data"  -> Downloaded(rows)
      [] ans = "empty" -> IF att < 2 THEN NoResult ELSE NoData
      [] OTHER         -> IF att < 2 THEN NoResult ELSE ProviderError

\* a sleep after every pass of the retry loop
BackoffAlways(r, pos) == <<Ev("backoff", pos, 10)>>

\* time.sleep(1) before `continue`, lines 51-53 and 57-59, in tenths of a
\* second: only a pass that does not return sleeps
Backoff(r, pos) == IF r = NoResult THEN <<Ev("backoff", pos, 10)>> ELSE <<>>

\* the table written whatever the provider returned
ToCsvUntested(c, t, ans, rows) ==
    IF ans # "exception" THEN [c EXCEPT ![t] = rows] ELSE c

\* df.to_csv(path) behind `if not df.empty`, lines 42-47: the cache directory
\* after a pass of the retry loop for ticker t
ToCsv(c, t, ans, rows) == IF ans = "data" THEN [c EXCEPT ![t] = rows] ELSE c

\* an exception of the provider left uncaught: the script run ends
AfterAttemptUncaught(r, ans) ==
    IF ans = "exception" THEN "idle" ELSE IF r = NoResult THEN "attempt" ELSE "record"

\* where download_ticker_data goes after a pass: every exception is caught
\* (line 56), so it either returns or sleeps and takes the next pass
AfterAttempt(r, ans) == IF r = NoResult THEN "attempt" ELSE "record"

\* one pass of `for attempt in range(3)`; with the range used up the function
\* falls through to line 62
Attempt ==
    /\ app = "dl" /\ pc = "attempt"
    /\ IF attempt >= MaxAttempts
       THEN /\ result' = RetriesExhausted
            /\ pc' = "record"
            /\ UNCHANGED <<log, cache, attempt, answer>>
       ELSE \E ans \in {"data", "empty", "exception"}, rows \in Rows :
              LET r == AttemptResult(attempt, ans, rows)
                  fetch == Ev("fetch", GlobalIdx + 1, IF ans = "data" THEN 1 ELSE 0)
              IN  /\ answer' = ans
                  /\ cache' = ToCsv(cache, Ticker, ans, rows)
                  /\ result' = r
                  /\ pc' = AfterAttempt(r, ans)
                  /\ log' = Append(log, fetch) \o Backoff(r, GlobalIdx + 1)
                  /\ attempt' = IF r = NoResult THEN attempt + 1 ELSE attempt
    /\ UNCHANGED <<app, sessions, delay, i, pressed, zip_data, offered, all_tickers, new_tickers,
                   batch_size, batch_idx, success_list, fail_list, confirmRendered,
                   confirmValue, resetRendered, zipRendered, confirmRead, outcome, intVars>>

\* a pacing sleep only before the next item of the same batch
PaceWithinBatch(idx, n, dly) ==
    IF idx < BatchEnd - 1 THEN <<Ev("pace", idx + 1, dly)>> ELSE <<>>

\* lines 212-214: time.sleep(delay) unless the item is the last of the list
Pace(idx, n, dly) == IF idx < n - 1 THEN <<Ev("pace", idx + 1, dly)>> ELSE <<>>

\* lines 205-214, and the step of the two nested loops
Record ==
    /\ app = "dl" /\ pc = "record"
    /\ IF result.ok
       THEN /\ success_list' = Append(success_list, Ticker)
            /\ UNCHANGED fail_list
       ELSE /\ fail_list' = Append(fail_list, <<Ticker, result>>)
            /\ UNCHANGED success_list
    /\ log' = Append(log, Ev("record", GlobalIdx + 1, result.tag))
                 \o Pace(GlobalIdx, Len(new_tickers), delay)
    /\ IF BatchStart + i + 1 < BatchEnd
       THEN /\ i' = i + 1
            /\ UNCHANGED batch_idx
            /\ pc' = "item"
       ELSE /\ i' = 0
            /\ batch_idx' = batch_idx + 1
            /\ pc' = IF batch_idx + 1 < TotalBatches(Len(new_tickers), batch_size)
                     THEN "item" ELSE "summary"
    /\ UNCHANGED <<app, sessions, delay, pressed, zip_data, offered, all_tickers, cache, new_tickers,
                   batch_size, attempt, answer, result, confirmRendered, confirmValue,
                   resetRendered, zipRendered, confirmRead, outcome, intVars>>

\* the tenths of a second of the sleeps from entry k of log on
RECURSIVE SleptFrom(_)
SleptFrom(k) ==
    IF k > Len(log) THEN 0
    ELSE (IF log[k][1] \in {"backoff", "pace"} THEN log[k][3] ELSE 0) + SleptFrom(k + 1)

\* whole seconds the run certainly took: its backoff and pacing sleeps
Slept == SleptFrom(1) \div 10

\* lines 217-236, then the rest of main(); elapsed = int(time.time() - start_time)
\* is at least the time slept; with elapsed = 0 line 227 divides by zero and the
\* run ends there
Summary ==
    /\ app = "dl" /\ pc = "summary"
    /\ \E elapsed \in Slept..(Slept + 1) :
         IF elapsed = 0
         THEN /\ outcome' = "crash"
              /\ pc' = "idle"
              /\ UNCHANGED <<cache, confirmRendered, confirmValue, resetRendered,
                             zipRendered, confirmRead, zip_data, offered>>
         ELSE /\ outcome' = "summary"
              /\ RunTail("download", CheckboxState)
    /\ UNCHANGED <<app, sessions, delay, i, log, pressed, all_tickers, new_tickers, batch_size,
                   batch_idx, attempt, answer, result, success_list, fail_list,
                   intVars>>

----------------------------------------------------------------------------
(* streamlit_integrated_app.py: values and pure parts *)

\* a DataFrame (its rows in order) or python None
NoneDf == [none |-> TRUE, rows |-> <<>>]
Df(rows) == [none |-> FALSE, rows |-> rows]

\* what fetch_stock_data returns: None, or a table with n > 0 rows
NoneData == [none |-> TRUE, n |-> 0]
Data(n) == [none |-> FALSE, n |-> n]

\* the values Last Sale, Market Cap and Volume take, and the thresholds tried
Values == {1, 2}
Thresholds == [price : Values, cap : Values, volume : Values]
DefaultThresholds == [price |-> 1, cap |-> 1, volume |-> 1]
\* the (Last Sale, Market Cap, Volume) the provider gives in a run of the app
Quotes == {[last |-> 1, cap |-> 1, volume |-> 1], [last |-> 2, cap |-> 2, volume |-> 2]}

\* the Name of the symbol directory and the name the provider's info gives
MetaNames == {"Security Name"}
InfoNames == {"Long Name"}
\* a missing value (NaN / None) in a Name column
NullName == "<NA>"

\* lines 211-213
MajorTickers ==
    {"AAPL", "MSFT", "GOOGL", "AMZN", "META", "TSLA", "NVDA", "JPM", "JNJ", "V",
     "WMT", "PG", "MA", "HD", "DIS", "NFLX", "PYPL", "INTC", "CSCO", "PFE"}

\* the rows get_ticker_info_batch can collect, lines 84-90
InfoRows == [Symbol : Symbols, Name : InfoNames, LastSale : Values, MarketCap : Values,
             Volume : Values]

\* a key the provider's info dict does not hold
Absent == "<absent>"

\* the info dicts of the provider as far as the name goes: longName and
\* shortName each absent, None, empty or a name
Infos == [longName : {Absent, NullName, "", "Long Name"},
          shortName : {Absent, NullName, "Short Name"}]

\* info.get('longName', info.get('shortName', symbol)), line 86: the default is
\* used only when the key is absent, a None or empty value is returned as it is
InfoName(info, symbol) ==
    IF info.longName # Absent THEN info.longName
    ELSE IF info.shortName # Absent THEN info.shortName
    ELSE symbol

\* the rows get_ticker_info_batch can collect as far as the name goes, with
\* one quote
NameRows ==
    {[Symbol |-> s, Name |-> InfoName(info, s), LastSale |-> 1, MarketCap |-> 1,
      Volume |-> 1] : s \in Symbols, info \in Infos}

\* the tables download_nasdaq_tickers can return (empty after an exception)
TickerRows == [Symbol : Symbols, Name : MetaNames]
TickerTables == {Df(rows) : rows \in SeqsUpTo(TickerRows, MaxRows)}

\* df['Symbol'].tolist()
RECURSIVE SymbolColumn(_)
SymbolColumn(rows) ==
    IF rows = <<>> THEN <<>> ELSE <<Head(rows).Symbol>> \o SymbolColumn(Tail(rows))

\* lines 209-218
SymbolsToProcess(use_sample, df) ==
    IF use_sample
    THEN SymbolColumn(SelectSeq(df.rows, LAMBDA r : r.Symbol \in MajorTickers))
    ELSE SymbolColumn(df.rows)

\* the rows of `right` with the key of `l`, each joined to `l`, in right order
RECURSIVE JoinOne(_, _)
JoinOne(l, right) ==
    IF right = <<>> THEN <<>>
    ELSE (IF Head(right).Symbol = l.Symbol
          THEN <<[Symbol |-> l.Symbol, Name |-> l.Name, Name_info |-> Head(right).Name,
                  LastSale |-> Head(right).LastSale, MarketCap |-> Head(right).MarketCap,
                  Volume |-> Head(right).Volume]>>
          ELSE <<>>) \o JoinOne(l, Tail(right))

\* ticker_df.merge(info_df, on='Symbol', how='inner', suffixes=('', '_info')), line 234
RECURSIVE Merge(_, _)
Merge(left, right) ==
    IF left = <<>> THEN <<>> ELSE JoinOne(Head(left), right) \o Merge(Tail(left), right)

\* lines 237-239: Name_info.fillna(Name), then Name_info dropped
FillName(r) ==
    [Symbol |-> r.Symbol,
     Name |-> IF r.Name_info = NullName THEN r.Name ELSE r.Name_info,
     LastSale |-> r.LastSale, MarketCap |-> r.MarketCap, Volume |-> r.Volume]

RECURSIVE FillNames(_)
FillNames(rows) ==
    IF rows = <<>> THEN <<>> ELSE <<FillName(Head(rows))>> \o FillNames(Tail(rows))

\* the three tests joined by "or"
PassesAny(r, thr) ==
    \/ r.LastSale >= thr.price
    \/ r.MarketCap >= thr.cap
    \/ r.Volume >= thr.volume

\* the row test of lines 242-246
Passes(r, thr) ==
    /\ r.LastSale >= thr.price
    /\ r.MarketCap >= thr.cap
    /\ r.Volume >= thr.volume

\* lines 234-246
MergeAndFilter(meta, info, thr) ==
    SelectSeq(FillNames(Merge(meta, info)), LAMBDA r : Passes(r, thr))

\* a python dict as the sequence of its (key, value) pairs in insertion order;
\* d[k] = v replaces the value of a key already there and keeps its place
RECURSIVE DictSet(_, _, _)
DictSet(d, k, v) ==
    IF d = <<>> THEN <<<<k, v>>>>
    ELSE IF Head(d)[1] = k THEN <<<<k, v>>>> \o Tail(d)
    ELSE <<Head(d)>> \o DictSet(Tail(d), k, v)

RECURSIVE DictKeys(_)
DictKeys(d) == IF d = <<>> THEN <<>> ELSE <<Head(d)[1]>> \o DictKeys(Tail(d))

\* create_download_zip(data_dict), lines 133-145: always a buffer holding an
\* archive, with one entry per key
CreateDownloadZipApp(data_dict) == Archive(MapCsv(DictKeys(data_dict)))

\* fetch_stock_data, lines 109-131
FetchStockData(ans, rows) == IF ans = "data" THEN Data(rows) ELSE NoneData

\* (i + 1) % 10, lines 102 and 322
SleepEvery == 10

\* one second added to the regular pause after every 10th item
LoopSleepAdded(idx) == IF (idx + 1) % SleepEvery = 0 THEN 11 ELSE 1

\* lines 102-105 and 322-325, in tenths of a second
LoopSleep(idx) == IF (idx + 1) % SleepEvery = 0 THEN 10 ELSE 1

\* the sequences over the elements of S without repetition
NoRepeat(S) == {s \in SeqsUpTo(S, Cardinality(S)) : Cardinality(Range(s)) = Len(s)}

----------------------------------------------------------------------------
(* streamlit_integrated_app.py: the script runs *)

\* the body of tab2 run without a ticker table
Step2Always == TRUE

\* `if st.session_state.ticker_df is not None`, line 207: the body of tab2,
\* its button included, runs only then
Step2Available == ~ticker_df.none

\* `if st.session_state.filtered_df is not None`, line 273, for tab3
Step3Available == ~filtered_df.none

ClearAppLocals ==
    /\ answer' = "none"
    /\ symbols' = <<>>
    /\ ticker_info' = <<>>
    /\ failed_tickers' = <<>>
    /\ thresholds' = DefaultThresholds
    /\ successful_data' = <<>>
    /\ failed_list' = <<>>
    /\ i' = 0
    /\ log' = <<>>
    /\ zip_data' = NoArchive
    /\ offered' = FALSE

\* a rerun in which no button reads True (a sidebar widget changed)
AppRerun ==
    /\ app = "int" /\ pc = "idle"
    /\ pressed' = "none"
    /\ ClearAppLocals
    /\ UNCHANGED <<app, sessions, pc, dlVars, nasdaq_cache, ticker_df, filtered_df>>

\* tab1, lines 180-185.  download_nasdaq_tickers is wrapped by
\* st.cache_data(ttl=86400) (line 31): within the 24 hours the model covers,
\* every call gives the table of the first one (the empty table when that call
\* caught an exception, line 62-64)
PressDownloadTickers ==
    /\ app = "int" /\ pc = "idle"
    /\ LET df == nasdaq_cache
       IN  ticker_df' = IF df.rows # <<>> THEN df ELSE ticker_df
    /\ pressed' = "download_tickers"
    /\ ClearAppLocals
    /\ UNCHANGED <<app, sessions, pc, dlVars, nasdaq_cache, filtered_df>>

\* tab2, lines 207-230: the button exists only with a ticker_df
PressFetchInfo ==
    /\ app = "int" /\ pc = "idle"
    /\ Step2Available
    /\ \E use_sample \in BOOLEAN :
         LET symbols_to_process == SymbolsToProcess(use_sample, ticker_df)
         IN  /\ symbols' = symbols_to_process
             /\ pc' = IF Len(symbols_to_process) > 0 THEN "info_item" ELSE "info_done"
    /\ pressed' = "fetch_info"
    /\ ticker_info' = <<>>
    /\ failed_tickers' = <<>>
    /\ thresholds' = DefaultThresholds
    /\ successful_data' = <<>>
    /\ failed_list' = <<>>
    /\ i' = 0
    /\ answer' = "none"
    /\ log' = <<>>
    /\ zip_data' = NoArchive
    /\ offered' = FALSE
    /\ UNCHANGED <<app, sessions, dlVars, nasdaq_cache, ticker_df, filtered_df>>

\* the entries one pass of a loop of the integrated app adds to log, in the
\* order of the code: the fetch, the outcome recorded, the progress report, the
\* sleep (lines 72-105 and 307-325)
PassLog(idx, total, ok) ==
    <<Ev("fetch", idx + 1, IF ok THEN 1 ELSE 0),
      Ev("record", idx + 1, IF ok THEN "ok" ELSE "failed"),
      ProgressReport(idx, total),
      Ev("sleep", idx + 1, LoopSleep(idx))>>

\* one pass of the loop of get_ticker_info_batch, lines 71-105
InfoItem ==
    /\ app = "int" /\ pc = "info_item"
    /\ \E ans \in {"data", "empty", "exception"} :
         /\ IF ans = "data"
            THEN /\ \E name \in InfoNames, q \in Quotes :
                      ticker_info' = Append(ticker_info,
                          [Symbol |-> symbols[i + 1], Name |-> name, LastSale |-> q.last,
                           MarketCap |-> q.cap, Volume |-> q.volume])
                 /\ UNCHANGED failed_tickers
            ELSE /\ failed_tickers' = Append(failed_tickers, symbols[i + 1])
                 /\ UNCHANGED ticker_info
         /\ log' = log \o PassLog(i, Len(symbols), ans = "data")
    /\ i' = i + 1
    /\ pc' = IF i + 1 < Len(symbols) THEN "info_item" ELSE "info_done"
    /\ UNCHANGED <<app, sessions, answer, pressed, zip_data, offered, dlVars, nasdaq_cache, ticker_df,
                   filtered_df, symbols, thresholds, successful_data,
                   failed_list>>

\* lines 230-266: the thresholds are the sidebar values of this run (lines
\* 163-165); they are recorded when the filter uses them
InfoFinish ==
    /\ app = "int" /\ pc = "info_done"
    /\ IF ticker_info # <<>>
       THEN \E thr \in Thresholds :
              /\ thresholds' = thr
              /\ filtered_df' = Df(MergeAndFilter(ticker_df.rows, ticker_info, thr))
       ELSE UNCHANGED <<thresholds, filtered_df>>
    /\ pc' = "idle"
    /\ UNCHANGED <<app, sessions, answer, i, log, pressed, zip_data, offered, dlVars, nasdaq_cache,
                   ticker_df, symbols, ticker_info, failed_tickers,
                   successful_data, failed_list>>

\* tab3, lines 273-303: the button exists only with a filtered_df; the symbols
\* are the whole column (select all) or a multiselect choice
PressDownloadStocks ==
    /\ app = "int" /\ pc = "idle"
    /\ Step3Available
    /\ LET options == SymbolColumn(filtered_df.rows)
       IN  \E selected_symbols \in {options} \cup NoRepeat(Range(options)) :
             /\ symbols' = selected_symbols
             /\ pc' = IF Len(selected_symbols) > 0 THEN "stock_item" ELSE "idle"
    /\ pressed' = "download_stocks"
    /\ ticker_info' = <<>>
    /\ failed_tickers' = <<>>
    /\ thresholds' = DefaultThresholds
    /\ successful_data' = <<>>
    /\ failed_list' = <<>>
    /\ i' = 0
    /\ answer' = "none"
    /\ log' = <<>>
    /\ zip_data' = NoArchive
    /\ offered' = FALSE
    /\ UNCHANGED <<app, sessions, dlVars, nasdaq_cache, ticker_df, filtered_df>>

\* one pass of the loop of lines 306-325
StockItem ==
    /\ app = "int" /\ pc = "stock_item"
    /\ \E ans \in {"data", "empty", "exception"}, rows \in Rows :
         LET df == FetchStockData(ans, rows)
         IN  /\ answer' = ans
             /\ IF ~df.none
                THEN /\ successful_data' = DictSet(successful_data, symbols[i + 1], df)
                     /\ UNCHANGED failed_list
                ELSE /\ failed_list' = Append(failed_list, symbols[i + 1])
                     /\ UNCHANGED successful_data
             /\ log' = log \o PassLog(i, Len(symbols), ~df.none)
    /\ i' = i + 1
    /\ pc' = IF i + 1 < Len(symbols) THEN "stock_item" ELSE "stock_done"
    /\ UNCHANGED <<app, sessions, pressed, zip_data, offered, dlVars, nasdaq_cache, ticker_df,
                   filtered_df, symbols, ticker_info, failed_tickers,
                   thresholds>>

\* lines 327-345 (st.session_state.stock_data, written at line 328 and read
\* nowhere, is left out)
StockFinish ==
    /\ app = "int" /\ pc = "stock_done"
    /\ IF successful_data # <<>>
       THEN /\ zip_data' = CreateDownloadZipApp(successful_data)
            /\ offered' = TRUE
       ELSE /\ zip_data' = NoArchive
            /\ offered' = FALSE
    /\ pc' = "idle"
    /\ UNCHANGED <<app, sessions, answer, i, log, pressed, dlVars, nasdaq_cache, ticker_df, filtered_df,
                   symbols, ticker_info, failed_tickers, thresholds, successful_data,
                   failed_list>>

----------------------------------------------------------------------------

DlLocalsInit ==
    /\ new_tickers = <<>>
    /\ batch_size = 1
    /\ delay = DefaultDelay
    /\ batch_idx = 0
    /\ attempt = 0
    /\ answer = "none"
    /\ result = NoResult
    /\ success_list = <<>>
    /\ fail_list = <<>>
    /\ confirmRendered = FALSE
    /\ confirmValue = FALSE
    /\ confirmRead = FALSE
    /\ outcome = "none"

AppInit ==
    /\ ticker_df = NoneDf
    /\ filtered_df = NoneDf
    /\ symbols = <<>>
    /\ ticker_info = <<>>
    /\ failed_tickers = <<>>
    /\ thresholds = DefaultThresholds
    /\ successful_data = <<>>
    /\ failed_list = <<>>

\* download_data.py after its first run with an uploaded list and any cache
\* directory, or streamlit_integrated_app.py with a fresh session (lines 24-29)
\* and any table for download_nasdaq_tickers to return
Init ==
    /\ app \in {"dl", "int"}
    /\ pc = "idle"
    /\ i = 0
    /\ log = <<>>
    /\ pressed = "none"
    /\ zip_data = NoArchive
    /\ offered = FALSE
    /\ DlLocalsInit
    /\ sessions = <<>>
    /\ AppInit
    /\ IF app = "dl"
       THEN /\ all_tickers \in SeqsUpTo(Symbols, MaxTickers)
            /\ cache \in [Symbols -> {0} \cup Rows]
            /\ resetRendered = TRUE
            /\ zipRendered = (ExistingTickers(cache) # {})
       ELSE /\ all_tickers = <<>>
            /\ cache = [s \in Symbols |-> 0]
            /\ resetRendered = FALSE
            /\ zipRendered = FALSE
    /\ nasdaq_cache \in IF app = "int" THEN TickerTables ELSE {Df(<<>>)}

Next ==
    \/ Rerun
    \/ PressDownload
    \/ PressReset
    \/ TickConfirm
    \/ PressZip
    \/ ItemBegin
    \/ Attempt
    \/ Record
    \/ Summary
    \/ AppRerun
    \/ PressDownloadTickers
    \/ PressFetchInfo
    \/ InfoItem
    \/ InfoFinish
    \/ PressDownloadStocks
    \/ StockItem
    \/ StockFinish

Spec == Init /\ [][Next]_vars

\* a step of a running batch loop: the script keeps running, and every
\* provider call returns
LoopStep == ItemBegin \/ Attempt \/ Record \/ InfoItem \/ StockItem

FairSpec == Spec /\ WF_vars(LoopStep)

\* the merge and filter stage on its own (lines 230-248): get_ticker_info_batch
\* has returned any summary table, for any non-empty ticker table
FilterInit ==
    /\ app = "int"
    /\ pc = "info_done"
    /\ pressed = "fetch_info"
    /\ i = 0
    /\ log = <<>>
    /\ zip_data = NoArchive
    /\ offered = FALSE
    /\ DlLocalsInit
    /\ sessions = <<>>
    /\ all_tickers = <<>>
    /\ cache = [s \in Symbols |-> 0]
    /\ resetRendered = FALSE
    /\ zipRendered = FALSE
    /\ ticker_df \in {t \in TickerTables : t.rows # <<>>}
    /\ nasdaq_cache = ticker_df
    /\ filtered_df = NoneDf
    /\ symbols = <<>>
    /\ ticker_info \in SeqsUpTo(InfoRows, MaxInfo)
    /\ failed_tickers = <<>>
    /\ thresholds = DefaultThresholds
    /\ successful_data = <<>>
    /\ failed_list = <<>>

FilterSpec == FilterInit /\ [][InfoFinish]_vars

----------------------------------------------------------------------------
(* Reading the log *)

\* the merge and filter stage on its own, for summary tables with any name the
\* provider's info can give (lines 84-90 and 230-248)
NameInit ==
    /\ app = "int"
    /\ pc = "info_done"
    /\ pressed = "fetch_info"
    /\ i = 0
    /\ log = <<>>
    /\ zip_data = NoArchive
    /\ offered = FALSE
    /\ DlLocalsInit
    /\ sessions = <<>>
    /\ all_tickers = <<>>
    /\ cache = [s \in Symbols |-> 0]
    /\ resetRendered = FALSE
    /\ zipRendered = FALSE
    /\ ticker_df \in {t \in TickerTables : t.rows # <<>>}
    /\ nasdaq_cache = ticker_df
    /\ filtered_df = NoneDf
    /\ symbols = <<>>
    /\ ticker_info \in SeqsUpTo(NameRows, MaxInfo)
    /\ failed_tickers = <<>>
    /\ thresholds = DefaultThresholds
    /\ successful_data = <<>>
    /\ failed_list = <<>>

NameSpec == NameInit /\ [][InfoFinish]_vars

\* get_ticker_info_batch on its own (lines 66-107), called with a list that
\* has a 10th item and two more; it is taken up PauseTail items before its
\* end, in the state it is in when the provider had no data for any item so far
PauseLen == SleepEvery + 2
PauseStart == PauseLen - PauseTail

PauseInputs ==
    {[k \in 1..PauseLen |-> "AAPL"],
     [k \in 1..PauseLen |-> IF k % 2 = 1 THEN "AAPL" ELSE "BAD"]}

RECURSIVE RowsOf(_)
RowsOf(syms) ==
    IF syms = <<>> THEN <<>>
    ELSE <<[Symbol |-> Head(syms), Name |-> "Security Name"]>> \o RowsOf(Tail(syms))

\* the log of the first k passes, none of which got data
RECURSIVE FailedPasses(_, _)
FailedPasses(k, total) ==
    IF k = 0 THEN <<>> ELSE FailedPasses(k - 1, total) \o PassLog(k - 1, total, FALSE)

PauseInit ==
    /\ app = "int"
    /\ pc = "info_item"
    /\ pressed = "fetch_info"
    /\ i = PauseStart
    /\ log = FailedPasses(PauseStart, PauseLen)
    /\ zip_data = NoArchive
    /\ offered = FALSE
    /\ DlLocalsInit
    /\ sessions = <<>>
    /\ all_tickers = <<>>
    /\ cache = [s \in Symbols |-> 0]
    /\ resetRendered = FALSE
    /\ zipRendered = FALSE
    /\ symbols \in PauseInputs
    /\ ticker_df = Df(RowsOf(symbols))
    /\ nasdaq_cache = ticker_df
    /\ filtered_df = NoneDf
    /\ ticker_info = <<>>
    /\ failed_tickers = SubSeq(symbols, 1, PauseStart)
    /\ thresholds = DefaultThresholds
    /\ successful_data = <<>>
    /\ failed_list = <<>>

PauseSpec == PauseInit /\ [][InfoItem]_vars

\* where in log the fetches for the item at position p are
FetchIdx(p) == {k \in 1..Len(log) : log[k][1] = "fetch" /\ log[k][2] = p}

\* the outcome of the item at position p has been recorded
Recorded(p) == \E k \in 1..Len(log) : log[k][1] = "record" /\ log[k][2] = p

RecordTag(p) == log[CHOOSE k \in 1..Len(log) : log[k][1] = "record" /\ log[k][2] = p][3]

\* the call of download_ticker_data for position p has returned, and with what
Returned(p) == Recorded(p) \/ (pc = "record" /\ p = GlobalIdx + 1)
ReturnedTag(p) == IF Recorded(p) THEN RecordTag(p) ELSE result.tag

SetMin(S) == CHOOSE x \in S : \A y \in S : x <= y

----------------------------------------------------------------------------
(* The claims *)

\* C1: when {S}.csv exists as download_ticker_data(S, period) is called, the call
\* returns success ("already downloaded") at once: no fetch is issued for it and
\* the cache directory is left as it is, whatever the artifact holds.
C1_CachedNeverFetched ==
    [][(app = "dl" /\ pc = "item" /\ cache[Ticker] # 0)
         => /\ pc' = "record"
            /\ result' = AlreadyDownloaded
            /\ result'.ok
            /\ cache' = cache
            /\ {k \in 1..Len(log') : log'[k][1] = "fetch" /\ log'[k][2] = GlobalIdx + 1} = {}
      ]_vars

\* a call for a symbol whose artifact exists has returned (the second
\* occurrence of a symbol in the list, downloaded at its first)
C1_Witness ==
    /\ app = "dl" /\ pc = "record"
    /\ result = AlreadyDownloaded
    /\ cache[Ticker] # 0

\* C3: one call of download_ticker_data for a symbol without artifact fetches at
\* most 3 times, once when the first fetch returns data, 3 times when none
\* does, and never again after a fetch that returned data.
C3_FetchCount ==
    app = "dl" =>
      \A p \in 1..Len(new_tickers) :
        LET F == FetchIdx(p)
        IN  /\ Cardinality(F) <= 3
            /\ \A k, l \in F : k < l => log[k][3] = 0
            /\ (Returned(p) /\ ReturnedTag(p) # "AlreadyDownloaded")
                 => /\ F # {}
                    /\ log[SetMin(F)][3] = 1 => Cardinality(F) = 1
                    /\ (\A k \in F : log[k][3] = 0) => Cardinality(F) = 3

\* a call has returned after three fetches without data
C3_Witness ==
    /\ app = "dl" /\ pc = "record"
    /\ ~result.ok
    /\ Cardinality(FetchIdx(GlobalIdx + 1)) = 3
    /\ \A k \in FetchIdx(GlobalIdx + 1) : log[k][3] = 0

Count(seq, x) == Cardinality({k \in 1..Len(seq) : seq[k] = x})

\* the symbols of fail_list, download_data.py:209
RECURSIVE Firsts(_)
Firsts(seq) == IF seq = <<>> THEN <<>> ELSE <<Head(seq)[1]>> \o Firsts(Tail(seq))

\* C2 as stated: when a batch run ends, succeeded plus failed entries are as many
\* as the input symbols, and every entry of the input (a symbol that occurs
\* more than once counts once per occurrence) is recorded exactly once, in
\* exactly one of the two collections.
C2_Original ==
    /\ (app = "dl" /\ pc = "summary")
         => /\ Len(success_list) + Len(fail_list) = Len(new_tickers)
            /\ \A t \in Symbols :
                 Count(success_list, t) + Count(Firsts(fail_list), t)
                     = Count(new_tickers, t)
    /\ (app = "int" /\ pc = "info_done" /\ log # <<>>)
         => /\ Len(ticker_info) + Len(failed_tickers) = Len(symbols)
            /\ \A t \in Symbols :
                 Count(SymbolColumn(ticker_info), t) + Count(failed_tickers, t)
                     = Count(symbols, t)
    /\ (app = "int" /\ pc = "stock_done")
         => /\ Len(successful_data) + Len(failed_list) = Len(symbols)
            /\ \A t \in Symbols :
                 Count(DictKeys(successful_data), t) + Count(failed_list, t)
                     = Count(symbols, t)

\* C5: a batch never aborts on an item's failure: once a batch loop is running
\* it records an outcome for every position of its input and reaches the code
\* after the loop (the summary of main, the return of get_ticker_info_batch,
\* the end of the Step-3 loop), whatever the outcomes.
C5_BatchCompletes ==
    /\ (app = "dl" /\ pc = "item")
         ~> (pc = "summary" /\ \A p \in 1..Len(new_tickers) : Recorded(p))
    /\ (pc = "info_item")
         ~> (pc = "info_done" /\ \A p \in 1..Len(symbols) : Recorded(p))
    /\ (pc = "stock_item")
         ~> (pc = "stock_done" /\ \A p \in 1..Len(symbols) : Recorded(p))

\* the first of two items failed on an exception and the loop has ended
C5_Witness ==
    /\ app = "dl" /\ pc = "summary"
    /\ Len(new_tickers) = 2
    /\ Recorded(1) /\ RecordTag(1) = "ProviderError"
    /\ Recorded(2)

RECURSIVE IsSubseq(_, _)
IsSubseq(sub, full) ==
    IF sub = <<>> THEN TRUE
    ELSE IF full = <<>> THEN FALSE
    ELSE IF Head(sub) = Head(full) THEN IsSubseq(Tail(sub), Tail(full))
    ELSE IsSubseq(sub, Tail(full))

\* C6: items are handled in input order, one at a time: every fetch and the
\* outcome record of an earlier position come before the first fetch of a later
\* one, and the succeeded and failed lists are subsequences of the input.
C6_InputOrder ==
    /\ \A b \in 1..Len(log) :
         log[b][1] = "fetch" =>
           \A a \in (b + 1)..Len(log) :
             log[a][1] \in {"fetch", "record"} => log[a][2] >= log[b][2]
    /\ app = "dl" => /\ IsSubseq(success_list, new_tickers)
                     /\ IsSubseq(Firsts(fail_list), new_tickers)
    /\ app = "int" => /\ IsSubseq(DictKeys(successful_data), symbols)
                      /\ IsSubseq(failed_list, symbols)
                      /\ IsSubseq(SymbolColumn(ticker_info), symbols)
                      /\ IsSubseq(failed_tickers, symbols)

\* two items in two batches of one: the first took retries, the second is
\* being fetched
C6_Witness ==
    /\ app = "dl" /\ pc = "record"
    /\ batch_size = 1 /\ batch_idx = 1
    /\ Cardinality(FetchIdx(1)) = 3
    /\ Cardinality(FetchIdx(2)) = 2
    /\ new_tickers[1] # new_tickers[2]

\* the input of the running batch loop, and the progress reports in log
Input == IF app = "dl" THEN new_tickers ELSE symbols
ProgressIdx == {k \in 1..Len(log) : log[k][1] = "progress"}
LoopEnded == pc \in {"summary", "info_done", "stock_done"}

\* C7 as stated: in all three loops the progress report of an item comes after
\* the item's outcome has been recorded.
C7_Original ==
    \A k \in ProgressIdx :
      \E j \in 1..(k - 1) : log[j][1] = "record" /\ log[j][2] = log[k][2]

\* C7 as amended: every loop reports progress exactly once per item, with
\* done = the item's 1-based position and total = the length of the input, so
\* the done values are 1, 2, ..., total whatever the outcomes.  In
\* get_ticker_info_batch and the Step-3 loop the report follows the item's
\* outcome record; in download_data.main it precedes the item's download.
C7_ProgressOncePerItem ==
    LET P == ProgressIdx
        n == Len(Input)
    IN  /\ \A k \in P :
             /\ log[k][2] = Cardinality({j \in P : j <= k})
             /\ log[k][3] = n
             /\ log[k][2] \in 1..n
        /\ LoopEnded => Cardinality(P) = n
        /\ \A p \in 1..n :
             Recorded(p) => Cardinality({k \in P : log[k][2] = p}) = 1
        /\ app = "int" =>
             \A k \in P :
               \E j \in 1..(k - 1) : log[j][1] = "record" /\ log[j][2] = log[k][2]
        /\ app = "dl" =>
             \A k \in P :
               \A j \in 1..k :
                 ~(log[j][1] \in {"fetch", "record"} /\ log[j][2] = log[k][2])

\* a run of main over two items, one failed, has ended with two reports
C7_Witness ==
    /\ app = "dl" /\ pc = "summary"
    /\ Len(new_tickers) = 2
    /\ fail_list # <<>>
    /\ Cardinality(ProgressIdx) = 2

\* C8: with nothing to package no archive is offered: create_download_zip() of
\* download_data.py returns None for a cache directory without .csv file,
\* create_download_zip({}) of the integrated app returns an archive without
\* entries, and neither app renders the ZIP download button in a run that has
\* no artifact to put in it.
C8_NothingToPackage ==
    /\ CreateDownloadZip([s \in Symbols |-> 0]) = NoArchive
    /\ CreateDownloadZipApp(<<>>).entries = <<>>
    /\ offered => (~zip_data.none /\ zip_data.entries # <<>>)
    /\ (app = "dl" /\ ExistingTickers(cache) = {}) => (~offered /\ ~zipRendered)
    /\ (app = "int" /\ successful_data = <<>>) => ~offered

\* a Step-3 run in which every download failed has ended
C8_Witness ==
    /\ app = "int" /\ pc = "idle"
    /\ pressed = "download_stocks"
    /\ failed_list # <<>>
    /\ successful_data = <<>>
    /\ ~offered

\* C9: the filtered table holds exactly the rows of the inner join on Symbol of
\* the ticker table and the summaries that meet all three thresholds: each of
\* its rows joins a ticker row and a summary row and has Last Sale >= min_price,
\* Market Cap >= min_market_cap and Volume >= min_volume, and every joined pair
\* meeting the three thresholds has its row in it.
C9_MergeAndFilter ==
    (app = "int" /\ pc = "idle" /\ pressed = "fetch_info" /\ ticker_info # <<>>)
      => /\ ~filtered_df.none
         /\ \A r \in Range(filtered_df.rows) :
              /\ \E m \in Range(ticker_df.rows) : m.Symbol = r.Symbol
              /\ \E x \in Range(ticker_info) :
                   /\ x.Symbol = r.Symbol
                   /\ x.LastSale = r.LastSale
                   /\ x.MarketCap = r.MarketCap
                   /\ x.Volume = r.Volume
              /\ r.LastSale >= thresholds.price
              /\ r.MarketCap >= thresholds.cap
              /\ r.Volume >= thresholds.volume
         /\ \A m \in Range(ticker_df.rows), x \in Range(ticker_info) :
              (/\ m.Symbol = x.Symbol
               /\ x.LastSale >= thresholds.price
               /\ x.MarketCap >= thresholds.cap
               /\ x.Volume >= thresholds.volume)
                => \E r \in Range(filtered_df.rows) :
                     /\ r.Symbol = x.Symbol
                     /\ r.LastSale = x.LastSale
                     /\ r.MarketCap = x.MarketCap
                     /\ r.Volume = x.Volume

\* the filter kept one joined row and dropped another that met two of the
\* three thresholds; a ticker row without summary was dropped by the join
C9_Witness ==
    /\ app = "int" /\ pc = "idle" /\ pressed = "fetch_info"
    /\ Len(filtered_df.rows) = 1
    /\ \E x \in Range(ticker_info) :
         /\ \E m \in Range(ticker_df.rows) : m.Symbol = x.Symbol
         /\ x.LastSale >= thresholds.price
         /\ x.MarketCap >= thresholds.cap
         /\ x.Volume < thresholds.volume
    /\ \E m \in Range(ticker_df.rows) : \A x \in Range(ticker_info) : m.Symbol # x.Symbol

\* C10: an artifact leaves the cache directory only in a run in which the reset
\* button reads pressed and the confirmation checkbox reads checked: the reset
\* button alone deletes nothing, and no download or packaging run does.
C10_DeleteOnlyConfirmed ==
    [][(\E t \in Symbols : cache[t] # 0 /\ cache'[t] = 0)
         => (pressed' = "reset" /\ confirmRead')]_vars

\* the reset button was pressed, the checkbox is on the page unticked, and
\* the artifacts are still there
C10_Witness ==
    /\ app = "dl" /\ pc = "idle"
    /\ pressed = "reset"
    /\ confirmRendered /\ ~confirmRead
    /\ ExistingTickers(cache) # {}

\* the names of an archive's entries without repetition
OneEach(entries) == Cardinality(Range(entries)) = Len(entries)

\* C11: an archive has exactly one entry {name}.csv per artifact packaged and
\* no other entry: create_download_zip() of download_data.py for every cache
\* directory with a .csv file, create_download_zip(data_dict) of the integrated
\* app for every mapping the Step-3 loop builds, and the archive a run offers
\* for download.
C11_ArchiveOneToOne ==
    /\ \A c \in [Symbols -> {0} \cup Rows] :
         ExistingTickers(c) # {} =>
           LET z == CreateDownloadZip(c)
           IN  /\ ~z.none
               /\ OneEach(z.entries)
               /\ Range(z.entries) = {t \o ".csv" : t \in ExistingTickers(c)}
    /\ (app = "dl" /\ ~zip_data.none) =>
         /\ OneEach(zip_data.entries)
         /\ Range(zip_data.entries) = {t \o ".csv" : t \in ExistingTickers(cache)}
    /\ (app = "int" /\ pc \in {"stock_item", "stock_done"}) =>
         LET z == CreateDownloadZipApp(successful_data)
         IN  /\ OneEach(z.entries)
             /\ Range(z.entries) = {t \o ".csv" : t \in Range(DictKeys(successful_data))}
             /\ Len(z.entries) = Len(successful_data)
    /\ (app = "int" /\ ~zip_data.none) =>
         /\ OneEach(zip_data.entries)
         /\ Range(zip_data.entries) = {t \o ".csv" : t \in Range(DictKeys(successful_data))}

\* the ZIP button of download_data.py was pressed with two artifacts in the
\* cache directory and the archive holds two entries
C11_Witness ==
    /\ app = "dl" /\ pressed = "zip" /\ offered
    /\ ExistingTickers(cache) = Symbols
    /\ Len(zip_data.entries) = 2
    /\ "AAPL.csv" \in Range(zip_data.entries)

\* C12 as stated: the Name of every row of the merged table is the name of the
\* summary row it was joined from when that name is present and non-empty, and
\* the name of the ticker row otherwise: neither a null nor an empty summary
\* name replaces the name of the symbol directory.
C12_Original ==
    (app = "int" /\ pc = "idle" /\ pressed = "fetch_info" /\ ticker_info # <<>>)
      => \A r \in Range(filtered_df.rows) :
           \E m \in Range(ticker_df.rows), x \in Range(ticker_info) :
             /\ m.Symbol = r.Symbol
             /\ x.Symbol = r.Symbol
             /\ r.Name = IF x.Name \notin {NullName, ""} THEN x.Name ELSE m.Name

\* C13 as stated: a fetch that failed reports its cause: it returns one outcome
\* when the provider's result was empty and another when the provider raised,
\* both in download_ticker_data (the reason it returns) and in fetch_stock_data.
C13_Original ==
    /\ (app = "dl" /\ pc = "record" /\ ~result.ok)
         => /\ answer = "empty" => result = NoData
            /\ answer = "exception" => result = ProviderError
            /\ NoData # ProviderError
    /\ (app = "int" /\ pc \in {"stock_item", "stock_done"} /\ answer = "exception")
         => \A rows \in Rows :
              FetchStockData(answer, rows) # FetchStockData("empty", rows)

\* where in log the backoff sleeps of the call for position p are
BackoffIdx(p) == {k \in 1..Len(log) : log[k][1] = "backoff" /\ log[k][2] = p}

\* C14: in one call of download_ticker_data a backoff sleep of 1 second comes
\* right after a fetch without data that is not the third and right before the
\* next fetch of the call: none after a fetch with data, none after the third
\* fetch, and k - 1 of them in a call that has returned after k fetches.
C14_BackoffBetweenAttempts ==
    app = "dl" =>
      /\ \A k \in 1..Len(log) :
           log[k][1] = "backoff" =>
             /\ log[k][3] = 10
             /\ k > 1 /\ log[k - 1] = Ev("fetch", log[k][2], 0)
             /\ IF k < Len(log)
                THEN log[k + 1][1] = "fetch" /\ log[k + 1][2] = log[k][2]
                ELSE pc = "attempt" /\ attempt < MaxAttempts /\ GlobalIdx + 1 = log[k][2]
      /\ \A k \in 1..Len(log) :
           (log[k][1] = "fetch" /\ log[k][3] = 0) =>
             LET before == Cardinality({j \in FetchIdx(log[k][2]) : j < k})
             IN  IF before < 2
                 THEN k < Len(log) /\ log[k + 1] = Ev("backoff", log[k][2], 10)
                 ELSE k = Len(log) \/ log[k + 1][1] # "backoff"
      /\ \A p \in 1..Len(new_tickers) :
           (Returned(p) /\ FetchIdx(p) # {}) =>
             Cardinality(BackoffIdx(p)) = Cardinality(FetchIdx(p)) - 1

\* a call has returned data at its third fetch, after two backoff sleeps
C14_Witness ==
    /\ app = "dl" /\ pc = "record"
    /\ result.ok
    /\ Cardinality(FetchIdx(GlobalIdx + 1)) = 3
    /\ Cardinality(BackoffIdx(GlobalIdx + 1)) = 2

\* where in log the pacing sleeps are
PaceIdx == {k \in 1..Len(log) : log[k][1] = "pace"}

\* C15: in the download loop of main every item that has a successor is
\* followed by exactly one pacing sleep of the configured delay, whatever its
\* outcome and however many backoff sleeps its call took, also when the
\* successor is in the next batch; the sleep comes right after the item's
\* outcome record and before anything of the next item, and the last item has
\* none, so a run over n items that has ended slept n - 1 times.
C15_PaceBetweenItems ==
    app = "dl" =>
      LET n == Len(new_tickers)
      IN  /\ \A k \in PaceIdx :
               /\ log[k][3] = delay
               /\ log[k][2] < n
               /\ k > 1 /\ log[k - 1][1] = "record" /\ log[k - 1][2] = log[k][2]
               /\ \A j \in 1..Len(log) : log[j][2] > log[k][2] => j > k
               /\ \A j \in 1..Len(log) :
                    (log[j][1] \in {"fetch", "backoff"} /\ log[j][2] = log[k][2]) => j < k
          /\ \A p \in 1..n :
               Cardinality({k \in PaceIdx : log[k][2] = p})
                 = IF Recorded(p) /\ p < n THEN 1 ELSE 0
          /\ pc = "summary" => Cardinality(PaceIdx) = n - 1

\* two items in two batches of one: the first failed after two backoff sleeps
\* and was followed by one pacing sleep of 0.1 s before the second was fetched
C15_Witness ==
    /\ app = "dl" /\ pc = "summary"
    /\ batch_size = 1 /\ Len(new_tickers) = 2
    /\ delay = 1
    /\ Cardinality(BackoffIdx(1)) = 2
    /\ Returned(1) /\ RecordTag(1) \in {"NoData", "ProviderError"}
    /\ Cardinality(PaceIdx) = 1
    /\ FetchIdx(2) # {}

\* the tenths of a second get_ticker_info_batch paused after the item at
\* position p
RECURSIVE PauseFrom(_, _)
PauseFrom(p, k) ==
    IF k > Len(log) THEN 0
    ELSE (IF log[k][1] = "sleep" /\ log[k][2] = p THEN log[k][3] ELSE 0)
         + PauseFrom(p, k + 1)

PauseAfter(p) == PauseFrom(p, 1)

\* the regular pause, time.sleep(0.1) at line 105, in tenths of a second
RegularPause == LoopSleep(0)

\* C16 as stated: after every 10th item get_ticker_info_batch pauses for the
\* regular per-item pause plus 1 second, after every other item for the regular
\* pause only.
C16_Original ==
    (app = "int" /\ pressed = "fetch_info") =>
      \A p \in 1..Len(symbols) :
        Recorded(p) =>
          PauseAfter(p) = IF p % 10 = 0 THEN RegularPause + 10 ELSE RegularPause

\* C16 as amended: get_ticker_info_batch sleeps exactly once per item, at the
\* end of the item's pass: 1 second after every 10th item (positions 10, 20,
\* ...) in place of the regular pause, and 0.1 second after every other item.
C16_PauseAfterItem ==
    (app = "int" /\ pressed = "fetch_info") =>
      /\ \A p \in 1..Len(symbols) :
           Recorded(p) =>
             /\ Cardinality({k \in 1..Len(log) : log[k][1] = "sleep" /\ log[k][2] = p}) = 1
             /\ PauseAfter(p) = IF p % 10 = 0 THEN 10 ELSE 1
      /\ \A k \in 1..Len(log) :
           log[k][1] = "sleep" =>
             /\ k > 1 /\ log[k - 1][1] = "progress" /\ log[k - 1][2] = log[k][2]
             /\ k = Len(log) \/ log[k + 1][2] = log[k][2] + 1

\* the 10th item has been handled and followed by its pause
C16_Witness ==
    /\ app = "int" /\ pressed = "fetch_info"
    /\ Len(symbols) >= 10
    /\ Recorded(10)
    /\ Ev("sleep", 10, 10) \in Range(log)
    /\ Ev("sleep", 9, 1) \in Range(log)

\* C17: a call of download_ticker_data has returned success exactly when the
\* artifact of its ticker exists; a step of a call changes the cache directory
\* only by writing the artifact of its own ticker, which did not exist, in the
\* pass that returns success, so a failed call has written nothing and no
\* artifact is overwritten; and an artifact that exists changes in no step of
\* the program except by being deleted.
C17_ArtifactFrame ==
    /\ []((app = "dl" /\ pc = "record") => (result.ok <=> cache[Ticker] # 0))
    /\ [][/\ (app = "dl" /\ pc \in {"item", "attempt"}) =>
               /\ \A s \in Symbols \ {Ticker} : cache'[s] = cache[s]
               /\ cache[Ticker] # 0 => cache'[Ticker] = cache[Ticker]
               /\ cache' # cache => (pc' = "record" /\ result'.ok /\ cache'[Ticker] # 0)
               /\ (pc' = "record" /\ ~result'.ok) => (cache' = cache /\ cache[Ticker] = 0)
          /\ \A s \in Symbols : cache[s] # 0 => cache'[s] \in {cache[s], 0}
         ]_vars

\* of two calls in one run the first has written its artifact and the second
\* has failed, leaving the cache directory as the first left it
C17_Witness ==
    /\ app = "dl" /\ pc = "record"
    /\ GlobalIdx = 1
    /\ ~result.ok
    /\ cache[new_tickers[1]] # 0
    /\ cache[Ticker] = 0
    /\ RecordTag(1) = "Rows"

\* C18 as stated: a download run of main over a non-empty list ends with its
\* summary computed and shown, whatever the whole seconds the run took, 0
\* included: the average speed len(new_tickers) / elapsed never raises.
C18_Original ==
    (app = "dl" /\ pc = "idle" /\ pressed = "download" /\ new_tickers # <<>>)
      => outcome = "summary"

\* C19: the steps of the integrated app come in order within a session:
\* ticker_df is set only by a Step-1 run whose download returned a table with
\* rows, filtered_df only at the end of a Step-2 collection that gave at least
\* one summary row; a Step-2 loop runs only with ticker_df set and a Step-3 loop
\* only with filtered_df set, so every Step-2 fetch follows a completed Step 1
\* and every Step-3 fetch a completed Step 2.
C19_StepsInOrder ==
    /\ [](app = "int" =>
            /\ pc \in {"info_item", "info_done"} => ~ticker_df.none
            /\ pc \in {"stock_item", "stock_done"} => ~filtered_df.none
            /\ (pressed = "fetch_info" /\ log # <<>>) => ~ticker_df.none
            /\ (pressed = "download_stocks" /\ log # <<>>) => ~filtered_df.none
            /\ ~filtered_df.none => ~ticker_df.none
            /\ ~ticker_df.none => ticker_df.rows # <<>>)
    /\ [][/\ ticker_df' # ticker_df =>
               /\ pressed' = "download_tickers"
               /\ ~ticker_df'.none /\ ticker_df'.rows # <<>>
          /\ filtered_df' # filtered_df =>
               /\ pressed = "fetch_info" /\ pc = "info_done" /\ pc' = "idle"
               /\ ticker_info # <<>>
               /\ ~ticker_df.none
               /\ ~filtered_df'.none
         ]_vars

\* a Step-3 loop is fetching, after Step 1 and Step 2 have set their tables
C19_Witness ==
    /\ app = "int" /\ pc = "stock_item"
    /\ pressed = "download_stocks"
    /\ log # <<>>
    /\ ~ticker_df.none /\ ~filtered_df.none

\* C20: the cache reset is achievable by pressing the reset button and then
\* ticking the confirmation checkbox: the run started by ticking the checkbox
\* that the reset button's run put on the page leaves no artifact in the cache
\* directory.
C20_Original ==
    [][(pressed = "reset" /\ confirmRendered /\ TickConfirm)
         => ExistingTickers(cache') = {}]_vars

----------------------------------------------------------------------------
(* download_data.py: two browser sessions over one CACHE_DIR.  Streamlit   *)
(* runs the script of each session in a thread of its own, so the steps of *)
(* download_ticker_data of one session interleave with the other's: the    *)
(* test of path.exists(), the provider call, and df.to_csv(path).          *)

Sessions == {1, 2}

\* a session with the page loaded and a ticker list uploaded
IdleSession(all) == [pc |-> "idle", all |-> all, new |-> <<>>, idx |-> 0, att |-> 0, df |-> 0]

\* the ticker the loop of session s is at, download_data.py:198-203
SessionTicker(s) == sessions[s].new[sessions[s].idx + 1]

\* the session after download_ticker_data has returned: the next item of
\* new_tickers, or the end of the loops (lines 189-214)
SessionStep(r) ==
    [r EXCEPT !.idx = r.idx + 1,
              !.pc = IF r.idx + 1 < Len(r.new) THEN "exists" ELSE "done",
              !.att = 0,
              !.df = 0]

raceFrame == <<app, pc, i, log, answer, pressed, zip_data, offered, intVars, all_tickers,
               new_tickers, batch_size, delay, batch_idx, attempt, result, success_list,
               fail_list, confirmRendered, confirmValue, resetRendered, zipRendered,
               confirmRead, outcome>>

\* "download" pressed in session s, lines 161 and 169: new_tickers is taken
\* from the cache directory as it is then
SessionPress(s) ==
    /\ sessions[s].pc = "idle"
    /\ LET nt == NewTickers("all", sessions[s].all, ExistingTickers(cache))
       IN  sessions' = [sessions EXCEPT ![s].new = nt,
                                        ![s].pc = IF nt = <<>> THEN "done" ELSE "exists"]
    /\ UNCHANGED <<cache, raceFrame>>

\* `if path.exists(): return`, lines 30-34
SessionExists(s) ==
    /\ sessions[s].pc = "exists"
    /\ sessions' = [sessions EXCEPT ![s] =
                      IF PathExists(cache, SessionTicker(s))
                      THEN SessionStep(sessions[s])
                      ELSE [sessions[s] EXCEPT !.pc = "fetch"]]
    /\ UNCHANGED <<cache, raceFrame>>

\* stock.history(...) of one pass of the retry loop, lines 39-42 and 50-60
SessionFetch(s) ==
    /\ sessions[s].pc = "fetch"
    /\ \E ans \in {"data", "empty", "exception"}, rows \in Rows :
         LET r == sessions[s]
         IN  sessions' = [sessions EXCEPT ![s] =
               IF ans = "data"
               THEN [r EXCEPT !.pc = "write", !.df = rows]
               ELSE IF AttemptResult(r.att, ans, rows) = NoResult
                    THEN [r EXCEPT !.att = r.att + 1]
                    ELSE SessionStep(r)]
    /\ UNCHANGED <<cache, raceFrame>>

\* df.to_csv(path) and the return, lines 47-49
SessionWrite(s) ==
    /\ sessions[s].pc = "write"
    /\ cache' = ToCsv(cache, SessionTicker(s), "data", sessions[s].df)
    /\ sessions' = [sessions EXCEPT ![s] = SessionStep(sessions[s])]
    /\ UNCHANGED raceFrame

\* two sessions with uploaded lists that share a symbol, and any cache
\* directory
RaceInit ==
    /\ app = "dl"
    /\ pc = "idle"
    /\ i = 0
    /\ log = <<>>
    /\ pressed = "none"
    /\ zip_data = NoArchive
    /\ offered = FALSE
    /\ DlLocalsInit
    /\ AppInit
    /\ nasdaq_cache = Df(<<>>)
    /\ all_tickers = <<>>
    /\ resetRendered = TRUE
    /\ cache \in [Symbols -> {0} \cup Rows]
    /\ zipRendered = (ExistingTickers(cache) # {})
    /\ \E a, b \in SeqsUpTo(Symbols, MaxTickers) :
         /\ Range(a) \cap Range(b) # {}
         /\ sessions = [s \in Sessions |-> IdleSession(IF s = 1 THEN a ELSE b)]

RaceNext ==
    \E s \in Sessions :
       \/ SessionPress(s)
       \/ SessionExists(s)
       \/ SessionFetch(s)
       \/ SessionWrite(s)

RaceSpec == RaceInit /\ [][RaceNext]_vars

\* C21: with two sessions downloading over the same cache directory, in every
\* interleaving the provider is not invoked for a symbol whose artifact
\* exists, and no session writes an artifact that exists already: each symbol
\* is fetched and written at most once overall.
C21_Original ==
    [][\A s \in Sessions :
          /\ SessionFetch(s) => ~PathExists(cache, SessionTicker(s))
          /\ SessionWrite(s) => ~PathExists(cache, SessionTicker(s))]_vars

====
